---- MODULE Spec2Model ----
(***************************************************************************)
(* Model of the repository's entry points:                                 *)
(*   - docs_pusher.py   : DocumentationPusher (build LaTeX, then publish)  *)
(*   - github_manager.py: GitHubManager (interactive operator console)     *)
(*   - github_monitor.py: GitHubMonitor.get_file_changes                   *)
(* External tools (pdflatex, git) are the environment: every invocation    *)
(* nondeterministically succeeds or fails, and pdflatex writes files.      *)
(***************************************************************************)
EXTENDS Integers, Sequences, FiniteSets, TLC

\* ---------------------------------------------------------------- bounds
MaxDocs == 2
MaxRuns == 2
MaxUnlinkErrors == 1
MaxInputLen == 2
MaxCommits == 2
MaxFiles == 12

Docs == 1..MaxDocs

\* docs_pusher.py:51
AuxExtensions == {".aux", ".log", ".out", ".toc"}

\* Byproduct sets one pdflatex invocation may leave next to the source.
PdflatexWrites == {{}, {".aux", ".log"}, AuxExtensions}

\* How one pdflatex invocation ends: exit code 0, exit code != 0, or
\* subprocess.run raising TimeoutExpired / FileNotFoundError / another error.
Outcomes == {"zero", "nonzero", "timeout", "notfound", "error"}

PdfStates == {"none", "empty", "full"}

VARIABLES
    \* --- environment of docs_pusher
    envPath,        \* LOCAL_REPO_PATH: "unset", "abs" or "rel"
    repoValid,      \* Repo(local_path) opens
    nTex,           \* number of .tex files below docs/ (0 when docs/ is missing)
    docsExists,     \* docs/ exists
    pdf,            \* the derived output next to the source being built
    aux,            \* the byproduct extensions present next to that source
    idxDirty,       \* the index differs from HEAD
    wtDirty,        \* a tracked non-PDF file differs from the index
    commits,        \* local history created by the pipeline: <<[k, run]>>
    remoteLen,      \* how many of `commits` the remote has
    \* --- DocumentationPusher process
    pc, tex_files, idx, pass, cwd, built_files, success_count,
    buildOK, pushOK, runOK, exitCode,
    \* --- history of the current process run
    runNo,          \* which start of the script this is
    invoked,        \* invoked[d]: build_latex calls for source d
    result,         \* result[d]: "none", "ok" (returned True) or "fail"
    last,           \* the source build_latex was last entered for (0: none)
    passLog,        \* how the pdflatex invocations for `last` ended
    nonzeroDocs,    \* sources for which an invocation exited non-zero
    gitLog,         \* repository operations attempted by push_to_github
    stale           \* a PDF of `last` existed before its build began

pusherVars == <<envPath, repoValid, nTex, docsExists, pdf, aux, idxDirty,
                wtDirty, commits, remoteLen, pc, tex_files, idx, pass, cwd,
                built_files, success_count, buildOK, pushOK, runOK, exitCode,
                runNo, invoked, result, last, passLog, nonzeroDocs, gitLog, stale>>

VARIABLES
    \* --- environment of github_manager
    mPathOK,        \* LOCAL_REPO_PATH is set, exists and opens as a repository
    mWork,          \* the work tree has changes that are not staged
    mStaged,        \* the index has changes that are not committed
    mCommits,       \* number of commits made on the local branch
    mRemote,        \* how many of them origin has
    mHeads,         \* branch names besides main
    mActive,        \* checked-out branch
    mTags,          \* tag names
    \* --- GitHubManager process
    mpc,            \* "start", "menu", "wf_add", "wf_commit", "wf_push", "pause", "done"
    running,        \* self.running
    mCmd,           \* the menu choice being served
    mMsg,           \* the message or name entered for mCmd, stripped
    mLog            \* repository operations attempted for mCmd

managerVars == <<mPathOK, mWork, mStaged, mCommits, mRemote, mHeads, mActive, mTags,
                 mpc, running, mCmd, mMsg, mLog>>

VARIABLES
    \* --- repository seen by github_monitor
    gUntracked,     \* number of untracked files
    gModified,      \* number of paths whose index entry differs from HEAD
    gWorkDirty,     \* a tracked file differs from the index
    \* --- GitHubMonitor.get_file_changes
    gpc,            \* "idle" or "returned"
    changed         \* the list it returned

monitorVars == <<gUntracked, gModified, gWorkDirty, gpc, changed>>

vars == <<pusherVars, managerVars, monitorVars>>

\* ------------------------------------------------------------- helpers
Range(s) == {s[j] : j \in 1..Len(s)}

\* A path built from LOCAL_REPO_PATH names the real file when it is absolute,
\* or when the process is still in the directory it was started in.
PathHits(path, dir) == path = "abs" \/ dir = "orig"

\* find_tex_files
FindTexFiles == IF ~docsExists THEN <<>> ELSE [j \in 1..nTex |-> j]

\* build_all_docs: `if not tex_files`
NoTexFilesAlways(files) == FALSE
NoTexFiles(files) == files = <<>>

\* build_latex: `if result.returncode != 0` (p is the 0-based pass number)
PassFailsLastOnly(o, p) == o = "nonzero" /\ p = 1
PassFails(o, p) == o = "nonzero"

\* build_latex: `if pdf_file.exists()`
PdfExistsAlways(st) == TRUE
PdfExists(st) == st # "none"

\* build_all_docs: the loop visits the next file whatever the result was
LoopNextBreak(j, ok, n) == IF ok THEN j + 1 ELSE n + 1
LoopNext(j, ok, n) == j + 1

\* build_all_docs: `return success_count == len(tex_files)`
BuildAllResultAny(sc, n) == sc > 0
BuildAllResult(sc, n) == sc = n

\* push_to_github: `if not self.repo.is_dirty(): return True`
SkipCommitNever(dirty) == FALSE
SkipCommit(dirty) == ~dirty

\* push_to_github: `except Exception: return False`
ExceptResultSwallow == TRUE
ExceptResult == FALSE

\* run: `if not self.push_to_github(): return False`
RunResultIgnorePush(pushed) == TRUE
RunResult(pushed) == pushed

\* main: `sys.exit(0 if success else 1)`
ExitCodeAlwaysZero(success) == 0
ExitCode(success) == IF success THEN 0 ELSE 1

\* The branch every push and pull names
Main == <<"m">>

NoResult == [d \in Docs |-> "none"]
NoCalls == [d \in Docs |-> 0]

\* ---------------------------------------------------------------- Init
\* The console before it is started.
ManagerIdle ==
    /\ mPathOK = TRUE
    /\ mWork = FALSE
    /\ mStaged = FALSE
    /\ mCommits = 0
    /\ mRemote = 0
    /\ mHeads = {}
    /\ mActive = Main
    /\ mTags = {}
    /\ mpc = "start"
    /\ running = TRUE
    /\ mCmd = ""
    /\ mMsg = <<>>
    /\ mLog = <<>>

\* The monitor before it is started.
MonitorIdle ==
    /\ gUntracked = 0
    /\ gModified = 0
    /\ gWorkDirty = FALSE
    /\ gpc = "idle"
    /\ changed = <<>>

Init ==
    /\ ManagerIdle
    /\ MonitorIdle
    /\ envPath \in {"unset", "abs", "rel"}
    /\ repoValid \in BOOLEAN
    /\ docsExists \in BOOLEAN
    /\ nTex \in 0..MaxDocs
    /\ (~docsExists => nTex = 0)
    /\ pdf = "none"
    /\ aux = {}
    /\ idxDirty \in BOOLEAN
    /\ wtDirty \in BOOLEAN
    /\ commits = <<>>
    /\ remoteLen = 0
    /\ pc = "main"
    /\ tex_files = <<>>
    /\ idx = 0
    /\ pass = 0
    /\ cwd = "orig"
    /\ built_files = <<>>
    /\ success_count = 0
    /\ buildOK = FALSE
    /\ pushOK = FALSE
    /\ runOK = FALSE
    /\ exitCode = -1
    /\ runNo = 1
    /\ invoked = NoCalls
    /\ result = NoResult
    /\ last = 0
    /\ passLog = <<>>
    /\ nonzeroDocs = {}
    /\ gitLog = <<>>
    /\ stale = FALSE

\* The pusher's environment, and the console and the monitor, which are other
\* processes.
envUnch == UNCHANGED <<envPath, repoValid, nTex, docsExists, managerVars, monitorVars>>
fsUnch == UNCHANGED <<pdf, aux>>
gitUnch == UNCHANGED <<idxDirty, wtDirty, commits, remoteLen>>
histUnch == UNCHANGED <<runNo, invoked, result, last, passLog, nonzeroDocs, gitLog, stale>>

\* ------------------------------------------------- DocumentationPusher
\* main / __init__: open the repository or leave with status 1.  An unset
\* LOCAL_REPO_PATH makes Path(None) raise, which ends the process with status 1.
Construct ==
    /\ pc = "main"
    /\ IF envPath = "unset" \/ ~repoValid
          THEN /\ exitCode' = 1
               /\ pc' = "exit"
          ELSE /\ exitCode' = exitCode
               /\ pc' = "build_all_docs"
    /\ built_files' = <<>>
    /\ UNCHANGED <<tex_files, idx, pass, cwd, success_count, buildOK, pushOK, runOK>>
    /\ envUnch /\ fsUnch /\ gitUnch /\ histUnch

\* build_all_docs, up to the loop
BuildAllDocs ==
    /\ pc = "build_all_docs"
    /\ tex_files' = FindTexFiles
    /\ IF NoTexFiles(tex_files')
          THEN /\ buildOK' = FALSE
               /\ pc' = "run"
               /\ UNCHANGED <<success_count, idx>>
          ELSE /\ success_count' = 0
               /\ idx' = 1
               /\ pc' = IF idx' > Len(tex_files') THEN "build_done" ELSE "build_latex"
               /\ UNCHANGED buildOK
    /\ UNCHANGED <<pass, cwd, built_files, pushOK, runOK, exitCode>>
    /\ envUnch /\ fsUnch /\ gitUnch /\ histUnch

\* After build_latex returned `ok` for tex_files[idx]: count it and go on.
AfterBuild(d, ok) ==
    /\ result' = [result EXCEPT ![d] = IF ok THEN "ok" ELSE "fail"]
    /\ success_count' = IF ok THEN success_count + 1 ELSE success_count
    /\ idx' = LoopNext(idx, ok, Len(tex_files))
    /\ pc' = IF idx' > Len(tex_files) THEN "build_done" ELSE "build_latex"
    /\ cwd' = "orig"

\* build_latex entry: remember the directory, chdir next to the source.
\* pdf and aux now describe the files an earlier run left next to this source.
BuildLatex ==
    /\ pc = "build_latex"
    /\ idx <= Len(tex_files)
    /\ invoked' = [invoked EXCEPT ![tex_files[idx]] = @ + 1]
    /\ last' = tex_files[idx]
    /\ passLog' = <<>>
    /\ pdf' \in PdfStates
    /\ aux' \in PdflatexWrites
    /\ stale' = (pdf' # "none")
    /\ cwd' = "docdir"
    /\ pass' = 0
    /\ pc' = "pdflatex"
    /\ UNCHANGED <<tex_files, idx, built_files, success_count, buildOK, pushOK, runOK,
                   exitCode, runNo, result, nonzeroDocs, gitLog>>
    /\ envUnch /\ gitUnch

\* One pdflatex invocation of the two-pass loop.
Pdflatex ==
    /\ pc = "pdflatex"
    /\ \E o \in Outcomes, w \in PdflatexWrites, p \in {"keep", "empty", "full"} :
        LET d == tex_files[idx]
            failed == o \in {"timeout", "notfound", "error"} \/ PassFails(o, pass)
        IN  /\ (o = "notfound" => w = {} /\ p = "keep")
            /\ passLog' = Append(passLog, o)
            /\ nonzeroDocs' = IF o = "nonzero" THEN nonzeroDocs \cup {d} ELSE nonzeroDocs
            /\ aux' = aux \cup w
            /\ pdf' = IF p = "keep" THEN pdf ELSE p
            /\ IF failed
                  THEN \* returncode != 0, or an exception handler: return False
                       /\ AfterBuild(d, FALSE)
                       /\ UNCHANGED pass
                  ELSE /\ pass' = pass + 1
                       /\ pc' = IF pass' = 2 THEN "cleanup" ELSE "pdflatex"
                       /\ UNCHANGED <<result, success_count, idx, cwd>>
    /\ UNCHANGED <<tex_files, built_files, buildOK, pushOK, runOK, exitCode,
                   runNo, invoked, last, gitLog, stale>>
    /\ envUnch /\ gitUnch

\* build_latex after two clean passes: delete the byproducts (errors ignored),
\* chdir back, then look for the PDF.
CleanupVerifyWith(maxErrors) ==
    /\ pc = "cleanup"
    /\ \E F \in SUBSET AuxExtensions :
        LET d == tex_files[idx]
            seen == IF PathHits(envPath, cwd) THEN aux ELSE {}
            built == PdfExists(IF PathHits(envPath, "orig") THEN pdf ELSE "none")
        IN  /\ F \subseteq seen      \* the files whose unlink raised
            /\ Cardinality(F) <= maxErrors
            /\ aux' = (aux \ seen) \cup F
            /\ built_files' = IF built THEN Append(built_files, d) ELSE built_files
            /\ AfterBuild(d, built)
    /\ UNCHANGED <<tex_files, pass, buildOK, pushOK, runOK, exitCode,
                   runNo, invoked, last, passLog, nonzeroDocs, gitLog, stale, pdf>>
    /\ envUnch /\ gitUnch

CleanupVerify == CleanupVerifyWith(MaxUnlinkErrors)

\* The same step on a file system where no unlink raises.
CleanupVerifyNoErrors == CleanupVerifyWith(0)

\* build_all_docs after the loop
BuildDone ==
    /\ pc = "build_done"
    /\ buildOK' = BuildAllResult(success_count, Len(tex_files))
    /\ pc' = "run"
    /\ UNCHANGED <<tex_files, idx, pass, cwd, built_files, success_count, pushOK, runOK,
                   exitCode>>
    /\ envUnch /\ fsUnch /\ gitUnch /\ histUnch

\* run, after build_all_docs returned (push_to_remote is True)
Run ==
    /\ pc = "run"
    /\ IF ~buildOK
          THEN /\ runOK' = FALSE
               /\ pc' = "main_exit"
          ELSE IF built_files # <<>>
          THEN /\ runOK' = runOK
               /\ pc' = "add1"
          ELSE /\ runOK' = TRUE
               /\ pc' = "main_exit"
    /\ UNCHANGED <<tex_files, idx, pass, cwd, built_files, success_count, buildOK, pushOK,
                   exitCode>>
    /\ envUnch /\ fsUnch /\ gitUnch /\ histUnch

\* push_to_github returns `ok` to run, which returns to main
PushReturns(ok) ==
    /\ pushOK' = ok
    /\ runOK' = RunResult(ok)
    /\ pc' = "main_exit"

Logged(op, res) == gitLog' = Append(gitLog, [op |-> op, res |-> res])

progUnch == UNCHANGED <<tex_files, idx, pass, cwd, built_files, success_count, buildOK,
                        exitCode, runNo, invoked, result, last, passLog, nonzeroDocs,
                        stale>>

\* A repository call that raised: push_to_github's handler returns False
Raised(op) ==
    /\ Logged(op, "raise")
    /\ PushReturns(ExceptResult)

\* repo.git.add('*.pdf'): stages every PDF of the work tree that differs
GitAdd1 ==
    /\ pc = "add1"
    /\ \E ok \in BOOLEAN, staged \in BOOLEAN :
        IF ok THEN /\ Logged("add1", "ok")
                   /\ idxDirty' = (idxDirty \/ staged)
                   /\ pc' = "add2"
                   /\ UNCHANGED <<pushOK, runOK>>
              ELSE /\ ~staged
                   /\ Raised("add1")
                   /\ UNCHANGED idxDirty
    /\ UNCHANGED <<wtDirty, commits, remoteLen>>
    /\ progUnch /\ envUnch /\ fsUnch

\* repo.git.add('docs/**/*.pdf'): those files are staged already
GitAdd2 ==
    /\ pc = "add2"
    /\ \E ok \in BOOLEAN :
        IF ok THEN /\ Logged("add2", "ok")
                   /\ pc' = "is_dirty"
                   /\ UNCHANGED <<pushOK, runOK>>
              ELSE Raised("add2")
    /\ gitUnch
    /\ progUnch /\ envUnch /\ fsUnch

\* repo.is_dirty(): index or tracked work tree differ from HEAD
IsDirty ==
    /\ pc = "is_dirty"
    /\ \E ok \in BOOLEAN :
        IF ok THEN LET dirty == idxDirty \/ wtDirty
                   IN  /\ Logged("is_dirty", IF dirty THEN "dirty" ELSE "clean")
                       /\ IF SkipCommit(dirty)
                             THEN PushReturns(TRUE)
                             ELSE /\ pc' = "commit"
                                  /\ UNCHANGED <<pushOK, runOK>>
              ELSE Raised("is_dirty")
    /\ gitUnch
    /\ progUnch /\ envUnch /\ fsUnch

\* repo.index.commit(message), message = "Auto-build: Generated k PDF(s)"
Commit ==
    /\ pc = "commit"
    /\ \E ok \in BOOLEAN :
        IF ok THEN /\ Logged("commit", "ok")
                   /\ commits' = Append(commits, [k |-> Len(built_files), run |-> runNo])
                   /\ idxDirty' = FALSE
                   /\ pc' = "push"
                   /\ UNCHANGED <<pushOK, runOK>>
              ELSE /\ Raised("commit")
                   /\ UNCHANGED <<commits, idxDirty>>
    /\ UNCHANGED <<wtDirty, remoteLen>>
    /\ progUnch /\ envUnch /\ fsUnch

\* repo.remotes.origin.push('main')
Push ==
    /\ pc = "push"
    /\ \E ok \in BOOLEAN :
        IF ok THEN /\ Logged("push", "ok")
                   /\ remoteLen' = Len(commits)
                   /\ PushReturns(TRUE)
              ELSE /\ Raised("push")
                   /\ UNCHANGED remoteLen
    /\ UNCHANGED <<idxDirty, wtDirty, commits>>
    /\ progUnch /\ envUnch /\ fsUnch

\* main: sys.exit(0 if success else 1)
MainExit ==
    /\ pc = "main_exit"
    /\ exitCode' = ExitCode(runOK)
    /\ pc' = "exit"
    /\ UNCHANGED <<tex_files, idx, pass, cwd, built_files, success_count, buildOK, pushOK,
                   runOK>>
    /\ envUnch /\ fsUnch /\ gitUnch /\ histUnch

\* The operator starts the script again on the same repository.
Restart ==
    /\ pc = "exit"
    /\ runNo < MaxRuns
    /\ runNo' = runNo + 1
    /\ pc' = "main"
    /\ tex_files' = <<>>
    /\ idx' = 0
    /\ pass' = 0
    /\ cwd' = "orig"
    /\ built_files' = <<>>
    /\ success_count' = 0
    /\ buildOK' = FALSE
    /\ pushOK' = FALSE
    /\ runOK' = FALSE
    /\ exitCode' = -1
    /\ invoked' = NoCalls
    /\ result' = NoResult
    /\ last' = 0
    /\ passLog' = <<>>
    /\ nonzeroDocs' = {}
    /\ gitLog' = <<>>
    /\ stale' = FALSE
    /\ pdf' = "none"
    /\ aux' = {}
    /\ envUnch /\ gitUnch

Next ==
    \/ Construct
    \/ BuildAllDocs
    \/ BuildLatex
    \/ Pdflatex
    \/ CleanupVerify
    \/ BuildDone
    \/ Run
    \/ GitAdd1
    \/ GitAdd2
    \/ IsDirty
    \/ Commit
    \/ Push
    \/ MainExit

Spec == Init /\ [][Next]_vars

\* The pipeline on a file system where deleting a byproduct never fails.
NextUnlinkOK ==
    \/ Construct
    \/ BuildAllDocs
    \/ BuildLatex
    \/ Pdflatex
    \/ CleanupVerifyNoErrors
    \/ BuildDone
    \/ Run
    \/ GitAdd1
    \/ GitAdd2
    \/ IsDirty
    \/ Commit
    \/ Push
    \/ MainExit

SpecUnlinkOK == Init /\ [][NextUnlinkOK]_vars

\* Several starts of the script on the same repository.
NextRerun == Next \/ Restart

SpecRerun == Init /\ [][NextRerun]_vars

\* ------------------------------------------------------- GitHubManager
\* Console input: strings over a two-letter alphabet, blank included.
Chars == {" ", "a"}
Inputs == UNION {[1..n -> Chars] : n \in 0..MaxInputLen}

RECURSIVE LStrip(_)
LStrip(s) == IF s # <<>> /\ Head(s) = " " THEN LStrip(Tail(s)) ELSE s

RECURSIVE RStrip(_)
RStrip(s) == IF s # <<>> /\ s[Len(s)] = " " THEN RStrip(SubSeq(s, 1, Len(s) - 1)) ELSE s

\* str.strip()
Strip(s) == RStrip(LStrip(s))

\* `if not msg:` / `if not name:` -- the entered text is rejected
EmptyInputNever(s) == FALSE
EmptyInput(s) == s = <<>>

\* The pusher before it is started.
PusherIdle ==
    /\ envPath = "abs"
    /\ repoValid = TRUE
    /\ docsExists = TRUE
    /\ nTex = 0
    /\ pdf = "none"
    /\ aux = {}
    /\ idxDirty = FALSE
    /\ wtDirty = FALSE
    /\ commits = <<>>
    /\ remoteLen = 0
    /\ pc = "main"
    /\ tex_files = <<>>
    /\ idx = 0
    /\ pass = 0
    /\ cwd = "orig"
    /\ built_files = <<>>
    /\ success_count = 0
    /\ buildOK = FALSE
    /\ pushOK = FALSE
    /\ runOK = FALSE
    /\ exitCode = -1
    /\ runNo = 1
    /\ invoked = NoCalls
    /\ result = NoResult
    /\ last = 0
    /\ passLog = <<>>
    /\ nonzeroDocs = {}
    /\ gitLog = <<>>
    /\ stale = FALSE

InitManager ==
    /\ PusherIdle
    /\ MonitorIdle
    /\ mPathOK \in BOOLEAN
    /\ mWork \in BOOLEAN
    /\ mStaged \in BOOLEAN
    /\ mCommits = 0
    /\ mRemote = 0
    /\ mHeads = {}
    /\ mActive = Main
    /\ mTags = {}
    /\ mpc = "start"
    /\ running = TRUE
    /\ mCmd = ""
    /\ mMsg = <<>>
    /\ mLog = <<>>

mRepoUnch == UNCHANGED <<mWork, mStaged, mCommits, mRemote, mHeads, mActive, mTags>>

Op(op, res) == [op |-> op, res |-> res]

\* run: setup_repo, then the menu loop or return
SetupRepo ==
    /\ mpc = "start"
    /\ mpc' = IF mPathOK THEN "menu" ELSE "done"
    /\ UNCHANGED <<mPathOK, running, mCmd, mMsg, mLog, pusherVars, monitorVars>>
    /\ mRepoUnch

\* A menu choice is read and its handler entered.
Chosen(c) ==
    /\ mpc = "menu"
    /\ running
    /\ mCmd' = c
    /\ UNCHANGED <<mPathOK, running, pusherVars, monitorVars>>

\* view_status, view_history, list_branches: reads inside try/except
ReadOnly(c) ==
    /\ Chosen(c)
    /\ \E ok \in BOOLEAN : mLog' = <<Op("read", IF ok THEN "ok" ELSE "raise")>>
    /\ mpc' = "pause"
    /\ UNCHANGED mMsg
    /\ mRepoUnch

ViewStatus == ReadOnly("1")
ViewHistory == ReadOnly("2")
ListBranches == ReadOnly("10")

\* repo.git.add(A=True)
AddEffect ==
    /\ mStaged' = (mStaged \/ mWork)
    /\ mWork' = FALSE

\* repo.index.commit(msg)
CommitEffect ==
    /\ mCommits < MaxCommits
    /\ mCommits' = mCommits + 1
    /\ mStaged' = FALSE

\* repo.remotes.origin.push('main')
PushEffect == mRemote' = mCommits

AddFiles ==
    /\ Chosen("3")
    /\ \/ /\ mLog' = <<Op("add", "ok")>>
          /\ AddEffect
       \/ /\ mLog' = <<Op("add", "raise")>>
          /\ UNCHANGED <<mStaged, mWork>>
    /\ mpc' = "pause"
    /\ UNCHANGED <<mMsg, mCommits, mRemote, mHeads, mActive, mTags>>

CommitChanges ==
    /\ Chosen("4")
    /\ \E raw \in Inputs :
        /\ mMsg' = Strip(raw)
        /\ IF EmptyInput(mMsg')
              THEN /\ mLog' = <<>>
                   /\ UNCHANGED <<mCommits, mStaged>>
              ELSE \/ /\ mLog' = <<Op("commit", "ok")>>
                      /\ CommitEffect
                   \/ /\ mLog' = <<Op("commit", "raise")>>
                      /\ UNCHANGED <<mCommits, mStaged>>
    /\ mpc' = "pause"
    /\ UNCHANGED <<mWork, mRemote, mHeads, mActive, mTags>>

PushChanges ==
    /\ Chosen("5")
    /\ \/ /\ mLog' = <<Op("push", "ok")>>
          /\ PushEffect
       \/ /\ mLog' = <<Op("push", "raise")>>
          /\ UNCHANGED mRemote
    /\ mpc' = "pause"
    /\ UNCHANGED <<mMsg, mWork, mStaged, mCommits, mHeads, mActive, mTags>>

\* repo.remotes.origin.pull('main'); nobody else pushes to origin
PullChanges ==
    /\ Chosen("6")
    /\ \E ok \in BOOLEAN : mLog' = <<Op("pull", IF ok THEN "ok" ELSE "raise")>>
    /\ mpc' = "pause"
    /\ UNCHANGED mMsg
    /\ mRepoUnch

\* repo.create_head(name) raises when the branch exists
CreateBranch ==
    /\ Chosen("7")
    /\ \E raw \in Inputs :
        LET name == Strip(raw)
        IN  /\ mMsg' = name
            /\ IF EmptyInput(name)
               THEN /\ mLog' = <<>>
                    /\ UNCHANGED mHeads
               ELSE \/ /\ name \notin mHeads
                       /\ mLog' = <<Op("branch", "ok")>>
                       /\ mHeads' = mHeads \cup {name}
                    \/ /\ mLog' = <<Op("branch", "raise")>>
                       /\ UNCHANGED mHeads
    /\ mpc' = "pause"
    /\ UNCHANGED <<mWork, mStaged, mCommits, mRemote, mActive, mTags>>

\* repo.heads[name].checkout() raises when there is no such branch
SwitchBranch ==
    /\ Chosen("8")
    /\ \E raw \in Inputs :
        LET name == Strip(raw)
        IN  /\ mMsg' = name
            /\ IF EmptyInput(name)
               THEN /\ mLog' = <<>>
                    /\ UNCHANGED mActive
               ELSE \/ /\ name \in mHeads
                       /\ mLog' = <<Op("checkout", "ok")>>
                       /\ mActive' = name
                    \/ /\ mLog' = <<Op("checkout", "raise")>>
                       /\ UNCHANGED mActive
    /\ mpc' = "pause"
    /\ UNCHANGED <<mWork, mStaged, mCommits, mRemote, mHeads, mTags>>

\* repo.create_tag(name), then origin.push(name) when the answer is 'y'
CreateTag ==
    /\ Chosen("9")
    /\ \E raw \in Inputs, answer \in {"y", "n"}, pushed \in BOOLEAN :
        LET name == Strip(raw)
        IN  /\ mMsg' = name
            /\ IF EmptyInput(name)
               THEN /\ mLog' = <<>>
                    /\ UNCHANGED mTags
               ELSE \/ /\ name \notin mTags
                       /\ mTags' = mTags \cup {name}
                       /\ mLog' = IF answer = "y"
                                     THEN <<Op("tag", "ok"),
                                            Op("push", IF pushed THEN "ok" ELSE "raise")>>
                                     ELSE <<Op("tag", "ok")>>
                    \/ /\ mLog' = <<Op("tag", "raise")>>
                       /\ UNCHANGED mTags
    /\ mpc' = "pause"
    /\ UNCHANGED <<mWork, mStaged, mCommits, mRemote, mHeads, mActive>>

\* complete_workflow: where the try block goes after a step
WorkflowNextKeepGoing(next, ok) == next
WorkflowNextQuit(next, ok) == IF ok THEN next ELSE "done"
WorkflowNext(next, ok) == IF ok THEN next ELSE "pause"

\* complete_workflow: the message prompt
CompleteWorkflow ==
    /\ Chosen("11")
    /\ \E raw \in Inputs :
        /\ mMsg' = Strip(raw)
        /\ mpc' = IF EmptyInput(mMsg') THEN "pause" ELSE "wf_add"
    /\ mLog' = <<>>
    /\ mRepoUnch

wfUnch == UNCHANGED <<mPathOK, running, mCmd, mMsg, pusherVars, monitorVars>>

\* complete_workflow: 1. Adding files...
WorkflowAdd ==
    /\ mpc = "wf_add"
    /\ \/ /\ mLog' = Append(mLog, Op("add", "ok"))
          /\ AddEffect
          /\ mpc' = WorkflowNext("wf_commit", TRUE)
       \/ /\ mLog' = Append(mLog, Op("add", "raise"))
          /\ UNCHANGED <<mStaged, mWork>>
          /\ mpc' = WorkflowNext("wf_commit", FALSE)
    /\ UNCHANGED <<mCommits, mRemote, mHeads, mActive, mTags>>
    /\ wfUnch

\* complete_workflow: 2. Committing...
WorkflowCommit ==
    /\ mpc = "wf_commit"
    /\ \/ /\ mLog' = Append(mLog, Op("commit", "ok"))
          /\ CommitEffect
          /\ mpc' = WorkflowNext("wf_push", TRUE)
       \/ /\ mLog' = Append(mLog, Op("commit", "raise"))
          /\ UNCHANGED <<mCommits, mStaged>>
          /\ mpc' = WorkflowNext("wf_push", FALSE)
    /\ UNCHANGED <<mWork, mRemote, mHeads, mActive, mTags>>
    /\ wfUnch

\* complete_workflow: 3. Pushing...
WorkflowPush ==
    /\ mpc = "wf_push"
    /\ \/ /\ mLog' = Append(mLog, Op("push", "ok"))
          /\ PushEffect
       \/ /\ mLog' = Append(mLog, Op("push", "raise"))
          /\ UNCHANGED mRemote
    /\ mpc' = "pause"
    /\ UNCHANGED <<mWork, mStaged, mCommits, mHeads, mActive, mTags>>
    /\ wfUnch

\* choice '0': self.running = False, the loop ends without the pause
ExitChoice ==
    /\ mpc = "menu"
    /\ running
    /\ mCmd' = "0"
    /\ running' = FALSE
    /\ mpc' = "done"
    /\ mLog' = <<>>
    /\ UNCHANGED <<mPathOK, mMsg, pusherVars, monitorVars>>
    /\ mRepoUnch

\* any other text: "ERROR: Invalid option"
InvalidChoice ==
    /\ Chosen("other")
    /\ mLog' = <<>>
    /\ mpc' = "pause"
    /\ UNCHANGED mMsg
    /\ mRepoUnch

\* input("Press Enter to continue..."): the handler's locals are gone
PressEnter ==
    /\ mpc = "pause"
    /\ mpc' = "menu"
    /\ mCmd' = ""
    /\ mMsg' = <<>>
    /\ mLog' = <<>>
    /\ UNCHANGED <<mPathOK, running, pusherVars, monitorVars>>
    /\ mRepoUnch

\* Somebody edits a tracked file while the console waits at the menu.
EditFile ==
    /\ mpc = "menu"
    /\ ~mWork
    /\ mWork' = TRUE
    /\ UNCHANGED <<mPathOK, mStaged, mCommits, mRemote, mHeads, mActive, mTags,
                   mpc, running, mCmd, mMsg, mLog, pusherVars, monitorVars>>

NextManager ==
    \/ SetupRepo
    \/ ViewStatus
    \/ ViewHistory
    \/ AddFiles
    \/ CommitChanges
    \/ PushChanges
    \/ PullChanges
    \/ CreateBranch
    \/ SwitchBranch
    \/ CreateTag
    \/ ListBranches
    \/ CompleteWorkflow
    \/ WorkflowAdd
    \/ WorkflowCommit
    \/ WorkflowPush
    \/ ExitChoice
    \/ InvalidChoice
    \/ PressEnter
    \/ EditFile

SpecManager == InitManager /\ [][NextManager]_vars

\* ------------------------------------------------------- GitHubMonitor
\* github_monitor.py:82 and :86, the `[:10]` slices
ListLimit == 10

\* seq[:n]
TakeAll(seq, n) == seq
Take(seq, n) == SubSeq(seq, 1, IF Len(seq) < n THEN Len(seq) ELSE n)

Entry(kind, n) == [kind |-> kind, file |-> n]

\* repo.untracked_files / repo.index.diff('HEAD') as lists of entries
UntrackedEntries == [j \in 1..gUntracked |-> Entry("?", j)]
ModifiedEntries == [j \in 1..gModified |-> Entry("M", j)]

\* repo.is_dirty(): index or tracked work tree differ; untracked files do not count
RepoIsDirty == gModified > 0 \/ gWorkDirty

InitMonitor ==
    /\ PusherIdle
    /\ ManagerIdle
    /\ gUntracked \in 0..MaxFiles
    /\ gModified \in 0..MaxFiles
    /\ gWorkDirty \in BOOLEAN
    /\ gpc = "idle"
    /\ changed = <<>>

\* get_file_changes; `raises` names the repository call that raised, if any
GetFileChanges ==
    /\ gpc = "idle"
    /\ \E raises \in {"none", "is_dirty", "untracked_files", "diff"} :
        changed' =
            IF raises = "is_dirty" THEN <<Entry("ERROR", 0)>>
            ELSE IF ~RepoIsDirty THEN <<>>
            ELSE IF raises = "untracked_files" THEN <<Entry("ERROR", 0)>>
            ELSE IF raises = "diff"
                 THEN Append(Take(UntrackedEntries, ListLimit), Entry("ERROR", 0))
            ELSE Take(UntrackedEntries, ListLimit) \o Take(ModifiedEntries, ListLimit)
    /\ gpc' = "returned"
    /\ UNCHANGED <<gUntracked, gModified, gWorkDirty, pusherVars, managerVars>>

NextMonitor == GetFileChanges

SpecMonitor == InitMonitor /\ [][NextMonitor]_vars

\* ============================================================= claims
OkDocs == {d \in Range(tex_files) : result[d] = "ok"}
FailDocs == {d \in Range(tex_files) : result[d] = "fail"}
AllBuilt == \A d \in Range(tex_files) : result[d] = "ok"
Opened == envPath # "unset" /\ repoValid
\* build_latex has returned for `last`; pdf, aux and passLog describe that build
Returned == last # 0 /\ pc \notin {"pdflatex", "cleanup"}
\* build_all_docs has returned after running its loop
BuildStageDone ==
    /\ tex_files # <<>>
    /\ pc \notin {"main", "build_all_docs", "build_latex", "pdflatex", "cleanup", "build_done"}
LogOps(log) == [j \in 1..Len(log) |-> log[j].op]
CommitsOfThisRun == {j \in 1..Len(commits) : commits[j].run = runNo}

\* C1 (as claimed): with at least one successful and at least one failed
\* build, the finished run has staged and committed, and the commit message
\* carries k = the number of successful builds.
C1_MixedBuildStillPublishes ==
    (pc = "exit" /\ OkDocs # {} /\ FailDocs # {}) =>
        /\ "commit" \in Range(LogOps(gitLog))
        /\ \E j \in CommitsOfThisRun : commits[j].k = Cardinality(OkDocs)

\* C1 (amended): with at least one successful and at least one failed build,
\* build_all_docs returns False, run returns failure (exit status 1) and the
\* publish stage is never entered: nothing is staged, committed or pushed;
\* built_files holds exactly the k successful outputs.
C1_MixedBuildSkipsPublish ==
    (OkDocs # {} /\ FailDocs # {}) =>
        /\ gitLog = <<>>
        /\ CommitsOfThisRun = {}
        /\ Range(built_files) = OkDocs
        /\ Len(built_files) = Cardinality(OkDocs)
        /\ (BuildStageDone => ~buildOK)
        /\ (pc \in {"main_exit", "exit"} => ~runOK)
        /\ (pc = "exit" => exitCode = 1)

C1_Witness ==
    /\ pc = "exit"
    /\ Len(tex_files) = 2
    /\ Cardinality(OkDocs) = 1
    /\ Cardinality(FailDocs) = 1
    /\ Len(built_files) = 1
    /\ exitCode = 1

\* C2: when docs/ is missing or holds no .tex file, build_all_docs returns
\* False, run returns failure, and push_to_github is never invoked: no
\* staging, no commit, no push.
C2_NoSourcesNoPublish ==
    (FindTexFiles = <<>>) =>
        /\ gitLog = <<>>
        /\ CommitsOfThisRun = {}
        /\ ~buildOK
        /\ ~runOK
        /\ (pc = "exit" => exitCode = 1)

C2_Witness ==
    /\ Opened
    /\ docsExists
    /\ nTex = 0
    /\ pc = "exit"
    /\ exitCode = 1

\* C3: a document for which a pdflatex invocation exited non-zero (first or
\* second pass) is never reported built and never enters built_files, also
\* when a PDF from an earlier run lies next to the source.
C3_NonZeroExitNeverBuilt ==
    \A d \in nonzeroDocs :
        /\ result[d] # "ok"
        /\ d \notin Range(built_files)
        /\ (d # last \/ Returned => result[d] = "fail")

C3_Witness ==
    /\ Returned
    /\ last \in nonzeroDocs
    /\ passLog = <<"zero", "nonzero">>
    /\ stale
    /\ pdf = "full"
    /\ result[last] = "fail"

\* C4 (as claimed): after a build attempt the success flag is true iff the
\* derived output exists and is non-empty.
C4_SuccessIffOutputNonEmpty ==
    Returned => (result[last] = "ok" <=> pdf = "full")

\* C4 (amended): after a build attempt the success flag is true (and the
\* output is in built_files) iff both pdflatex passes exited with 0 and the
\* derived output exists; its size is not looked at.
C4_SuccessIffCleanPassesAndOutput ==
    Returned =>
        /\ result[last] = "ok" <=> (passLog = <<"zero", "zero">> /\ pdf # "none")
        /\ result[last] = "ok" <=> last \in Range(built_files)

C4_Witness ==
    /\ Returned
    /\ result[last] = "ok"
    /\ pdf = "empty"
    /\ last \in Range(built_files)

\* C5: when is_dirty() answers false after the two adds, push_to_github
\* creates no commit, attempts no push and returns True.
C5_CleanRepoNoCommit ==
    \A j \in 1..Len(gitLog) :
        (gitLog[j] = [op |-> "is_dirty", res |-> "clean"]) =>
            /\ j = Len(gitLog)
            /\ LogOps(gitLog) = <<"add1", "add2", "is_dirty">>
            /\ CommitsOfThisRun = {}
            /\ pushOK
            /\ pc \in {"main_exit", "exit"}

C5_Witness ==
    /\ pc = "exit"
    /\ Len(gitLog) = 3
    /\ gitLog[3] = [op |-> "is_dirty", res |-> "clean"]
    /\ exitCode = 0

\* C6: in push_to_github an error in staging, commit or push ends the stage
\* there with result False; every step is attempted at most once; a commit
\* made before a failing push stays in the history.
C6_PublishErrorAborts ==
    /\ \A i, j \in 1..Len(gitLog) : i # j => gitLog[i].op # gitLog[j].op
    /\ \A j \in 1..Len(gitLog) :
          gitLog[j].res = "raise" =>
              /\ j = Len(gitLog)
              /\ pc \in {"main_exit", "exit"}
              /\ ~pushOK
              /\ ~runOK
    /\ (\E i, j \in 1..Len(gitLog) : /\ gitLog[i] = [op |-> "commit", res |-> "ok"]
                                     /\ gitLog[j] = [op |-> "push", res |-> "raise"])
          => /\ Cardinality(CommitsOfThisRun) = 1
             /\ remoteLen < Len(commits)

C6_Witness ==
    /\ pc = "exit"
    /\ LogOps(gitLog) = <<"add1", "add2", "is_dirty", "commit", "push">>
    /\ gitLog[4].res = "ok"
    /\ gitLog[5].res = "raise"
    /\ Len(commits) = 1
    /\ exitCode = 1

\* C7: the build loop calls build_latex exactly once for every discovered
\* source whatever the earlier results were, and build_all_docs returns True
\* exactly when every call returned True.
C7_EveryDocBuiltOnce ==
    /\ \A d \in Docs : invoked[d] <= 1
    /\ BuildStageDone =>
          /\ \A d \in Range(tex_files) : invoked[d] = 1 /\ result[d] # "none"
          /\ buildOK <=> AllBuilt

C7_Witness ==
    /\ BuildStageDone
    /\ Len(tex_files) = 2
    /\ result[1] = "fail"
    /\ invoked[2] = 1
    /\ result[2] = "ok"
    /\ ~buildOK

\* C8: the process ends with status 0 exactly when every document was built
\* and the publish stage succeeded, and with status 1 otherwise (build,
\* publish or setup failure).
C8_ExitStatus ==
    pc = "exit" =>
        /\ exitCode \in {0, 1}
        /\ exitCode = 0 <=> (Opened /\ tex_files # <<>> /\ AllBuilt /\ pushOK)

C8_Witness ==
    /\ pc = "exit"
    /\ Opened
    /\ tex_files # <<>>
    /\ AllBuilt
    /\ ~pushOK
    /\ exitCode = 1

\* C9: complete_workflow attempts add, commit, push in this order and the
\* first step that raises ends it: nothing is attempted after a failure.
C9_WorkflowStopsAtFirstFailure ==
    mCmd = "11" =>
        /\ \E n \in 0..3 : LogOps(mLog) = SubSeq(<<"add", "commit", "push">>, 1, n)
        /\ \A j \in 1..Len(mLog) : mLog[j].res = "raise" => (j = Len(mLog) /\ mpc = "pause")
        /\ (mpc = "wf_add" => mLog = <<>>)
        /\ (mpc = "wf_commit" => LogOps(mLog) = <<"add">>)
        /\ (mpc = "wf_push" => LogOps(mLog) = <<"add", "commit">>)

C9_Witness ==
    /\ mCmd = "11"
    /\ mpc = "pause"
    /\ mLog = <<Op("add", "ok"), Op("commit", "raise")>>

\* C10: after build_latex returned True, none of .aux, .log, .out, .toc is
\* left next to the source.
C10_NoByproductAfterSuccess ==
    (Returned /\ result[last] = "ok") => aux \cap AuxExtensions = {}


\* C11: once setup_repo has succeeded the console only ever awaits a command:
\* every choice but '0' (valid or not, succeeding or failing) runs its handler,
\* passes the pause and comes back to the menu prompt with the loop still
\* running (no handler state is stuck or leaves the loop), and the loop ends
\* by the choice '0' alone.
C11_OnlyExitLeavesMenu ==
    /\ [][ /\ (mpc = "menu" /\ mCmd' \notin {"", "0"})
                => (mpc' \in {"pause", "wf_add"} /\ running')
           /\ (mpc \in {"wf_add", "wf_commit", "wf_push"})
                => (mpc' \in {"wf_commit", "wf_push", "pause"} /\ running')
           /\ (mpc = "pause") => (mpc' = "menu" /\ running')
           /\ (mpc \notin {"start", "done"} /\ (mpc' = "done" \/ ~running'))
                => (mpc = "menu" /\ mCmd' = "0" /\ mpc' = "done" /\ ~running')
         ]_vars
    /\ [](mpc = "pause" => ENABLED PressEnter)
    /\ [](mpc \in {"wf_add", "wf_commit", "wf_push"}
            => ENABLED (WorkflowAdd \/ WorkflowCommit \/ WorkflowPush))

C11_Witness ==
    /\ mpc = "pause"
    /\ mCmd = "11"
    /\ mLog = <<Op("add", "raise")>>
    /\ running


TextCommands == {"4", "7", "8", "9", "11"}

\* C12: for commit, create-branch, switch-branch, create-tag and
\* complete-workflow, an entry that is empty after stripping makes the handler
\* return at once: no repository operation is attempted and the repository
\* is as it was.
C12_EmptyInputRejected ==
    /\ [][ (mpc = "menu" /\ mCmd' \in TextCommands /\ mMsg' = <<>>)
              => /\ mLog' = <<>>
                 /\ mpc' = "pause"
                 /\ UNCHANGED <<mWork, mStaged, mCommits, mRemote, mHeads, mActive, mTags>>
         ]_vars
    /\ []((mCmd \in TextCommands /\ mMsg = <<>>) => (mLog = <<>> /\ mpc = "pause"))

C12_Witness ==
    /\ mCmd = "9"
    /\ mMsg = <<>>
    /\ mLog = <<>>
    /\ mpc = "pause"
    /\ mWork
    /\ mStaged


OfKind(k) == {j \in 1..Len(changed) : changed[j].kind = k}

\* C13 (as claimed): get_file_changes returns at most 10 entries in total,
\* untracked and modified-vs-HEAD counted together.
C13_AtMostTenEntries ==
    gpc = "returned" => Len(changed) <= ListLimit

\* C13 (amended): get_file_changes returns at most 10 untracked entries and at
\* most 10 modified-vs-HEAD entries, so at most 20 file entries in total (and
\* at most one ERROR entry, when a repository call raised).
C13_AtMostTenPerKind ==
    gpc = "returned" =>
        /\ Cardinality(OfKind("?")) <= ListLimit
        /\ Cardinality(OfKind("M")) <= ListLimit
        /\ Cardinality(OfKind("ERROR")) <= 1
        /\ Len(changed) <= 2 * ListLimit

C13_Witness ==
    /\ gpc = "returned"
    /\ gUntracked > ListLimit
    /\ gModified > ListLimit
    /\ Len(changed) = 2 * ListLimit


\* A commit of an earlier run is not on the remote, and this run has made none.
EarlierCommitUnpushed ==
    /\ runNo > 1
    /\ CommitsOfThisRun = {}
    /\ remoteLen < Len(commits)

\* is_dirty() is asked and answers (does not raise)
IsDirtyAnswers == pc = "is_dirty" /\ gitLog'[Len(gitLog')].res # "raise"

\* push_to_github returns True without commit or push
ReturnsCleanSuccess ==
    /\ pc' = "main_exit"
    /\ pushOK'
    /\ runOK'
    /\ gitLog'[Len(gitLog')] = [op |-> "is_dirty", res |-> "clean"]
    /\ UNCHANGED <<commits, remoteLen>>

\* C14 (as claimed): a run left its commit unpushed (push failed); when the
\* next run's build stages nothing new, push_to_github finds the repository
\* clean and returns success without a push, and the pipeline reports success
\* with that commit still missing on the remote.
C14_UnpushedCommitForgotten ==
    [][ (EarlierCommitUnpushed /\ IsDirtyAnswers /\ ~idxDirty) => ReturnsCleanSuccess ]_vars

\* C14 (amended): the same, provided no tracked file outside the build
\* outputs is modified in the work tree; with such a modification is_dirty()
\* is true, the run commits again and attempts the push.
C14_UnpushedCommitForgottenWhenClean ==
    /\ [][ (EarlierCommitUnpushed /\ IsDirtyAnswers /\ ~idxDirty /\ ~wtDirty)
              => ReturnsCleanSuccess ]_vars
    /\ []((/\ pc = "exit"
           /\ EarlierCommitUnpushed
           /\ gitLog # <<>>
           /\ gitLog[Len(gitLog)] = [op |-> "is_dirty", res |-> "clean"])
             => exitCode = 0)

C14_Witness ==
    /\ runNo = 2
    /\ pc = "exit"
    /\ exitCode = 0
    /\ Len(commits) = 1
    /\ commits[1].run = 1
    /\ remoteLen = 0
    /\ LogOps(gitLog) = <<"add1", "add2", "is_dirty">>
    /\ gitLog[3].res = "clean"

====
